---- MODULE Spec2Model ----
(***************************************************************************)
(* DECIDE: the deterministic decision engine of src/app.js, its chat       *)
(* agents pipeline (aggregate, extract, gate), the operator actions and    *)
(* the asynchronous Q&A handler, as a state machine.                       *)
(*                                                                         *)
(* JavaScript null is the number Null for the numeric fields and the       *)
(* string "null" for the string fields; a key that signals does not have   *)
(* (undefined) is the string "undefined".  A message text is modelled by   *)
(* what the code can observe of it: the set of recognised phrases its      *)
(* lower-cased form includes and the digits of its first "tow eta <n>".    *)
(* signals.lastAction and the message timestamps are written and never     *)
(* read by the program; they are left out of the state.                    *)
(***************************************************************************)
EXTENDS Integers, Sequences, FiniteSets, TLC

VARIABLES signals, chatMessages, liveSummary, previousRecommendation, pending

vars == <<signals, chatMessages, liveSummary, previousRecommendation, pending>>

(* ----- bounds of the model ----- *)
MaxTime == 11
MaxAttempts == 1
MaxMsgs == 5
MaxPending == 1
MaxOutstanding == 2

(* ----- Types and constants (app.js 6-66) ----- *)
Null == -1

MONITOR == "monitor"
REMOTE == "remote"
FIELD == "field"
SERVICE == "service"

LOW == "Low"
MEDIUM == "Medium"
HIGH == "High"

BLOCKED == "Blocked"
STUCK == "Stuck"
DEGRADED == "Degraded"

ladder == <<MONITOR, REMOTE, FIELD, SERVICE>>

cues ==
  [s \in {MONITOR, REMOTE, FIELD, SERVICE} |->
     CASE s = MONITOR -> <<"Situation Check", "Vehicle Health", "Time Impact">>
       [] s = REMOTE -> <<"Intervention Feasibility", "Escalation Avoidance", "Safety Risk">>
       [] s = FIELD -> <<"Public Impact", "Authority Involvement", "Remote Failure">>
       [] s = SERVICE -> <<"Repair Need", "Redeploy Risk", "Fleet Status">>]

(* ladder.indexOf(state), 0-based, -1 when absent *)
indexOf(state) ==
  IF \E i \in 1..Len(ladder) : ladder[i] = state
    THEN (CHOOSE i \in 1..Len(ladder) : ladder[i] = state) - 1
    ELSE -1

Min(a, b) == IF a < b THEN a ELSE b
Max(a, b) == IF a > b THEN a ELSE b

(* ----- Deterministic decision engine ----- *)

(* mutant: the FieldRecovery public-impact cue ignores the time blocked *)
buildConfidenceCuesNoTimeGate(state, s) ==
  CASE state = MONITOR ->
         << <<cues[state][1],
              IF s.condition = BLOCKED /\ s.timeBlockedMin < 5 THEN "Yes" ELSE "Likely temporary?">>,
            <<cues[state][2], IF s.drivable THEN "Yes" ELSE "No">>,
            <<cues[state][3], IF s.timeBlockedMin < 5 THEN "Yes" ELSE "No">> >>
    [] state = REMOTE ->
         << <<cues[state][1],
              IF s.drivable \/ s.condition = BLOCKED THEN "Yes" ELSE "Unclear">>,
            <<cues[state][2], IF ~s.policePresent THEN "Yes" ELSE "Unlikely">>,
            <<cues[state][3], IF s.policePresent THEN "Coordinated" ELSE "Yes">> >>
    [] state = FIELD ->
         << <<cues[state][1],
              IF s.condition # DEGRADED THEN "Yes"
              ELSE IF s.policePresent THEN "Managed" ELSE "Limited">>,
            <<cues[state][2], IF s.policePresent THEN "Yes" ELSE "No">>,
            <<cues[state][3],
              IF s.currentIntervention = REMOTE /\ s.attemptCount >= 1 THEN "Yes"
              ELSE "Not attempted/insufficient">> >>
    [] state = SERVICE ->
         << <<cues[state][1], IF ~s.drivable THEN "Yes" ELSE "Investigate">>,
            <<cues[state][2], IF ~s.drivable THEN "Yes" ELSE "Unknown">>,
            <<cues[state][3], IF ~s.drivable THEN "Remove until cleared" ELSE "Keep under watch">> >>
    [] OTHER -> << >>

buildConfidenceCues(state, s) ==
  CASE state = MONITOR ->
         << <<cues[state][1],
              IF s.condition = BLOCKED /\ s.timeBlockedMin < 5 THEN "Yes" ELSE "Likely temporary?">>,
            <<cues[state][2], IF s.drivable THEN "Yes" ELSE "No">>,
            <<cues[state][3], IF s.timeBlockedMin < 5 THEN "Yes" ELSE "No">> >>
    [] state = REMOTE ->
         << <<cues[state][1],
              IF s.drivable \/ s.condition = BLOCKED THEN "Yes" ELSE "Unclear">>,
            <<cues[state][2], IF ~s.policePresent THEN "Yes" ELSE "Unlikely">>,
            <<cues[state][3], IF s.policePresent THEN "Coordinated" ELSE "Yes">> >>
    [] state = FIELD ->
         << <<cues[state][1],
              IF s.condition # DEGRADED /\ s.timeBlockedMin >= 5 THEN "Yes"
              ELSE IF s.policePresent THEN "Managed" ELSE "Limited">>,
            <<cues[state][2], IF s.policePresent THEN "Yes" ELSE "No">>,
            <<cues[state][3],
              IF s.currentIntervention = REMOTE /\ s.attemptCount >= 1 THEN "Yes"
              ELSE "Not attempted/insufficient">> >>
    [] state = SERVICE ->
         << <<cues[state][1], IF ~s.drivable THEN "Yes" ELSE "Investigate">>,
            <<cues[state][2], IF ~s.drivable THEN "Yes" ELSE "Unknown">>,
            <<cues[state][3], IF ~s.drivable THEN "Remove until cleared" ELSE "Keep under watch">> >>
    [] OTHER -> << >>

(* result(state, priority, why); g is the global signals object, which     *)
(* result reads for the cues (app.js 137).                                 *)
result(state, priority, why, g) ==
  [state |-> state, priority |-> priority, oneLineWhy |-> why,
   cues |-> buildConfidenceCues(state, g)]

(* mutant: rules 2 and 3 tested in the opposite order *)
baseRecSwapped(s, g) ==
  IF s.condition = DEGRADED /\ s.drivable = FALSE
    THEN result(SERVICE, HIGH, "Not drivable while degraded", g)
  ELSE IF s.condition = STUCK /\ s.riderOnboard = TRUE
    THEN result(REMOTE, HIGH, "Stuck with rider onboard", g)
  ELSE IF s.condition = STUCK /\ s.policePresent = TRUE
    THEN result(FIELD, HIGH, "Stuck with police on scene", g)
  ELSE IF s.condition = BLOCKED /\ s.timeBlockedMin >= 5
    THEN result(REMOTE, MEDIUM, "Blocked >=5 min", g)
  ELSE result(MONITOR, LOW, "Transient or minor", g)

(* the five base rules, first match wins (evaluate, app.js 97-118) *)
baseRec(s, g) ==
  IF s.condition = DEGRADED /\ s.drivable = FALSE
    THEN result(SERVICE, HIGH, "Not drivable while degraded", g)
  ELSE IF s.condition = STUCK /\ s.policePresent = TRUE
    THEN result(FIELD, HIGH, "Stuck with police on scene", g)
  ELSE IF s.condition = STUCK /\ s.riderOnboard = TRUE
    THEN result(REMOTE, HIGH, "Stuck with rider onboard", g)
  ELSE IF s.condition = BLOCKED /\ s.timeBlockedMin >= 5
    THEN result(REMOTE, MEDIUM, "Blocked >=5 min", g)
  ELSE result(MONITOR, LOW, "Transient or minor", g)

stillUnresolved(s) ==
  (s.condition = BLOCKED \/ s.condition = STUCK) /\ s.timeBlockedMin >= 5

(* mutant: the closed loop needs a second failed attempt *)
evaluateTwoAttempts(s) ==
  LET b == baseRec(s, s) IN
  IF b.state # SERVICE /\ s.currentIntervention = REMOTE
     /\ s.attemptCount >= 2 /\ stillUnresolved(s)
    THEN result(FIELD, HIGH, "Remote assist failed to resolve", s)
    ELSE b

(* mutant: the closed loop applied without the Service exclusion, on time alone *)
evaluateOverService(s) ==
  LET b == baseRec(s, s) IN
  IF s.currentIntervention = REMOTE /\ s.attemptCount >= 1 /\ s.timeBlockedMin >= 5
    THEN result(FIELD, HIGH, "Remote assist failed to resolve", s)
    ELSE b

(* mutant: the closed loop asks for another remote attempt *)
evaluateRetryRemote(s) ==
  LET b == baseRec(s, s) IN
  IF b.state # SERVICE /\ s.currentIntervention = REMOTE
     /\ s.attemptCount >= 1 /\ stillUnresolved(s)
    THEN result(REMOTE, HIGH, "Remote assist failed to resolve", s)
    ELSE b

(* evaluate(s): every caller passes the global signals, so the cues are    *)
(* built from s itself.                                                    *)
evaluate(s) ==
  LET b == baseRec(s, s) IN
  IF b.state # SERVICE /\ s.currentIntervention = REMOTE
     /\ s.attemptCount >= 1 /\ stillUnresolved(s)
    THEN result(FIELD, HIGH, "Remote assist failed to resolve", s)
    ELSE b

severityPosition(state) ==
  CASE state = MONITOR -> 10
    [] state = REMOTE -> 40
    [] state = FIELD -> 75
    [] state = SERVICE -> 95
    [] OTHER -> 10

(* ----- App state (signals + derived), app.js 69-88 ----- *)
initialSignals ==
  [condition |-> BLOCKED, timeBlockedMin |-> 1, riderOnboard |-> TRUE,
   policePresent |-> FALSE, drivable |-> TRUE, currentIntervention |-> "none",
   attemptCount |-> 0, towEtaMin |-> Null,
   riderState |-> "null", remoteAssistFailed |-> FALSE,
   lanePartiallyBlocked |-> FALSE, severityScore |-> Null,
   injuries |-> "undefined"]

(* ----- Message texts ----- *)
POLICE_ARRIVED == "police arrived"
IMMEDIATE_REMOVAL == "request immediate removal"
RIDER_ANXIOUS == "rider anxious"
ATTEMPT_FAILED == "remote assist attempt failed"
LANE_BLOCKED == "lane partially blocked"
NO_INJURIES == "no injuries"

(* a text: its literal, the phrases t.toLowerCase() includes, and the      *)
(* digits captured by /tow\s*eta\s*(\d+)/ on it ("" when no match)         *)
Txt(lit, ph, tow) == [lit |-> lit, ph |-> ph, tow |-> tow]

DigitStrings == {"12", "08"}

parseInt(d) == CASE d = "12" -> 12 [] d = "08" -> 8

seedText == Txt("Initial check: no injuries reported", {NO_INJURIES}, "")

(* the texts the operator or the inject buttons send *)
ChatTexts ==
  { Txt("Tow ETA 12 minutes", {}, "12"),
    Txt("tow eta 08", {}, "08"),
    Txt("Police arrived, request immediate removal; rider anxious; remote assist attempt failed; lane partially blocked",
        {POLICE_ARRIVED, IMMEDIATE_REMOVAL, RIDER_ANXIOUS, ATTEMPT_FAILED, LANE_BLOCKED}, "") }

towLabel(d) == "Tow ETA " \o d \o "m"

(* the text `New signal detected: ${label}` as the agents read it back *)
notificationText(label) ==
  Txt("New signal detected: " \o label,
      IF label = "Lane partially blocked" THEN {LANE_BLOCKED}
      ELSE IF label = "No injuries reported" THEN {NO_INJURIES}
      ELSE {},
      IF \E d \in DigitStrings : label = towLabel(d)
        THEN CHOOSE d \in DigitStrings : label = towLabel(d)
        ELSE "")

Msg(source, text, kind) == [source |-> source, text |-> text, kind |-> kind]

(* ----- Chat state and agents ----- *)
Range(q) == {q[i] : i \in 1..Len(q)}

(* Set.add: insertion order kept, duplicates dropped *)
add(facts, f) == IF f \in Range(facts) THEN facts ELSE Append(facts, f)

(* mutant: the summary is not capped *)
sliceAll(facts) == facts

slice5(facts) == SubSeq(facts, 1, Min(Len(facts), 5))

(* mutant: the summary takes the latest tow message *)
aggregateSummaryLatestTow(msgs) ==
  LET some(p) == \E i \in 1..Len(msgs) : p \in msgs[i].text.ph
      hasTow == \E i \in 1..Len(msgs) : msgs[i].text.tow # ""
      tow == msgs[CHOOSE i \in 1..Len(msgs) :
                    /\ msgs[i].text.tow # ""
                    /\ \A j \in (i + 1)..Len(msgs) : msgs[j].text.tow = ""].text.tow
      f0 == << >>
      f1 == IF some(POLICE_ARRIVED) THEN add(f0, "Police on scene") ELSE f0
      f2 == IF some(IMMEDIATE_REMOVAL) THEN add(f1, "Police request immediate removal") ELSE f1
      f3 == IF hasTow THEN add(f2, "Tow ETA ~" \o tow \o " minutes") ELSE f2
      f4 == IF some(RIDER_ANXIOUS) THEN add(f3, "Rider reported anxious but safe") ELSE f3
      f5 == IF some(ATTEMPT_FAILED) THEN add(f4, "Remote assist attempt failed") ELSE f4
      f6 == IF some(LANE_BLOCKED) THEN add(f5, "Lane partially blocked") ELSE f5
      f7 == IF some(NO_INJURIES) THEN add(f6, "No injuries reported") ELSE f6
  IN slice5(f7)

aggregateSummary(msgs) ==
  LET some(p) == \E i \in 1..Len(msgs) : p \in msgs[i].text.ph
      hasTow == \E i \in 1..Len(msgs) : msgs[i].text.tow # ""
      tow == msgs[CHOOSE i \in 1..Len(msgs) :
                    /\ msgs[i].text.tow # ""
                    /\ \A j \in 1..(i - 1) : msgs[j].text.tow = ""].text.tow
      f0 == << >>
      f1 == IF some(POLICE_ARRIVED) THEN add(f0, "Police on scene") ELSE f0
      f2 == IF some(IMMEDIATE_REMOVAL) THEN add(f1, "Police request immediate removal") ELSE f1
      f3 == IF hasTow THEN add(f2, "Tow ETA ~" \o tow \o " minutes") ELSE f2
      f4 == IF some(RIDER_ANXIOUS) THEN add(f3, "Rider reported anxious but safe") ELSE f3
      f5 == IF some(ATTEMPT_FAILED) THEN add(f4, "Remote assist attempt failed") ELSE f4
      f6 == IF some(LANE_BLOCKED) THEN add(f5, "Lane partially blocked") ELSE f5
      f7 == IF some(NO_INJURIES) THEN add(f6, "No injuries reported") ELSE f6
  IN slice5(f7)

Cand(key, value, label) == [key |-> key, value |-> value, label |-> label]

(* mutant: a latest message without a police phrase proposes police gone *)
extractSignalsClearing(latestMsg, summary) ==
  LET t == latestMsg.text
      p1 == IF POLICE_ARRIVED \in t.ph \/ IMMEDIATE_REMOVAL \in t.ph
              THEN <<Cand("policePresent", TRUE, "Police present")>>
              ELSE <<Cand("policePresent", FALSE, "Police present")>>
      p2 == IF t.tow # ""
              THEN <<Cand("towEtaMin", parseInt(t.tow), towLabel(t.tow))>> ELSE << >>
      p3 == IF RIDER_ANXIOUS \in t.ph
              THEN <<Cand("riderState", "anxious", "Rider state: anxious")>> ELSE << >>
      p4 == IF ATTEMPT_FAILED \in t.ph
              THEN <<Cand("remoteAssistFailed", TRUE, "Remote assist failed")>> ELSE << >>
      p5 == IF LANE_BLOCKED \in t.ph
              THEN <<Cand("lanePartiallyBlocked", TRUE, "Lane partially blocked")>> ELSE << >>
      p6 == IF NO_INJURIES \in t.ph
              THEN <<Cand("injuries", "none", "No injuries reported")>> ELSE << >>
  IN p1 \o p2 \o p3 \o p4 \o p5 \o p6

(* mutant: the summary-level police path is missing *)
extractSignalsLatestOnly(latestMsg, summary) ==
  LET t == latestMsg.text
      p1 == IF POLICE_ARRIVED \in t.ph \/ IMMEDIATE_REMOVAL \in t.ph
              THEN <<Cand("policePresent", TRUE, "Police present")>> ELSE << >>
      p2 == IF t.tow # ""
              THEN <<Cand("towEtaMin", parseInt(t.tow), towLabel(t.tow))>> ELSE << >>
      p4 == IF ATTEMPT_FAILED \in t.ph
              THEN <<Cand("remoteAssistFailed", TRUE, "Remote assist failed")>> ELSE << >>
      p5 == IF LANE_BLOCKED \in t.ph
              THEN <<Cand("lanePartiallyBlocked", TRUE, "Lane partially blocked")>> ELSE << >>
  IN p1 \o p2 \o p4 \o p5

extractSignals(latestMsg, summary) ==
  LET t == latestMsg.text
      p1 == IF POLICE_ARRIVED \in t.ph \/ IMMEDIATE_REMOVAL \in t.ph
              THEN <<Cand("policePresent", TRUE, "Police present")>> ELSE << >>
      p2 == IF t.tow # ""
              THEN <<Cand("towEtaMin", parseInt(t.tow), towLabel(t.tow))>> ELSE << >>
      p3 == IF RIDER_ANXIOUS \in t.ph
              THEN <<Cand("riderState", "anxious", "Rider state: anxious")>> ELSE << >>
      p4 == IF ATTEMPT_FAILED \in t.ph
              THEN <<Cand("remoteAssistFailed", TRUE, "Remote assist failed")>> ELSE << >>
      p5 == IF LANE_BLOCKED \in t.ph
              THEN <<Cand("lanePartiallyBlocked", TRUE, "Lane partially blocked")>> ELSE << >>
      p6 == IF NO_INJURIES \in t.ph
              THEN <<Cand("injuries", "none", "No injuries reported")>> ELSE << >>
      p7 == IF \E i \in 1..Len(summary) : summary[i] = "Police on scene"
              THEN <<Cand("policePresent", TRUE, "Police present")>> ELSE << >>
  IN p1 \o p2 \o p3 \o p4 \o p5 \o p6 \o p7

(* mutant: riderState joins the allow-list *)
affectsAndRiderState ==
  {"policePresent", "remoteAssistFailed", "towEtaMin", "lanePartiallyBlocked", "riderState"}

(* the `affects` allow-list of promoteRelevantSignals *)
affects == {"policePresent", "remoteAssistFailed", "towEtaMin", "lanePartiallyBlocked"}

RECURSIVE promoteFrom(_, _, _, _)
(* the loop of promoteRelevantSignals from candidate i on; returns the     *)
(* signals as written and the promoted list                                *)
promoteFrom(s, proposed, i, promoted) ==
  IF i > Len(proposed) THEN [signals |-> s, promoted |-> promoted]
  ELSE LET p == proposed[i] IN
       IF p.key \notin affects THEN promoteFrom(s, proposed, i + 1, promoted)
       ELSE IF s[p.key] # p.value
         THEN promoteFrom([s EXCEPT ![p.key] = p.value], proposed, i + 1,
                          Append(promoted, p))
         ELSE promoteFrom(s, proposed, i + 1, promoted)

promoteRelevantSignals(s, proposed) == promoteFrom(s, proposed, 1, << >>)

(* the marker position render computes (app.js 380-382) *)
markerLeft(s) ==
  IF s.severityScore # Null THEN Max(0, Min(100, s.severityScore))
  ELSE severityPosition(evaluate(s).state)

(* ----- Rendering ----- *)
(* a handler works on the session st: the globals it reads and writes,    *)
(* and renders, the number of render() calls it has made so far            *)
render(st) ==
  LET rec == evaluate(st.signals) IN
  [st EXCEPT !.previousRecommendation = [state |-> rec.state, priority |-> rec.priority],
             !.renders = @ + 1]

RECURSIVE addChatMessage(_, _, _, _)
RECURSIVE runAgents(_, _)
RECURSIVE notifyFrom(_, _, _)

(* mutant: one notification for the whole batch *)
notifyFromOnce(st, promoted, i) ==
  IF i > Len(promoted) THEN st
  ELSE addChatMessage(st, "System", notificationText(promoted[i].label), "system")

(* promoted.forEach((p) => addChatMessage('System', ...)) from entry i on *)
notifyFrom(st, promoted, i) ==
  IF i > Len(promoted) THEN st
  ELSE notifyFrom(addChatMessage(st, "System", notificationText(promoted[i].label), "system"),
                  promoted, i + 1)

(* mutant: the re-evaluation is not conditional on a promotion *)
runAgentsAlwaysRender(st, latestMsg) ==
  LET summary == aggregateSummary(st.chatMessages)
      extracted == extractSignals(latestMsg, summary)
      g == promoteRelevantSignals(st.signals, extracted)
      st1 == [st EXCEPT !.liveSummary = summary, !.signals = g.signals]
  IN render(notifyFrom(st1, g.promoted, 1))

(* mutant: promotions are notified but the recommendation is not redrawn *)
runAgentsNoRender(st, latestMsg) ==
  LET summary == aggregateSummary(st.chatMessages)
      extracted == extractSignals(latestMsg, summary)
      g == promoteRelevantSignals(st.signals, extracted)
      st1 == [st EXCEPT !.liveSummary = summary, !.signals = g.signals]
  IN notifyFrom(st1, g.promoted, 1)

runAgents(st, latestMsg) ==
  LET summary == aggregateSummary(st.chatMessages)
      extracted == extractSignals(latestMsg, summary)
      g == promoteRelevantSignals(st.signals, extracted)
      st1 == [st EXCEPT !.liveSummary = summary, !.signals = g.signals]
  IN IF Len(g.promoted) > 0
       THEN render(notifyFrom(st1, g.promoted, 1))
       ELSE st1

addChatMessage(st, source, text, kind) ==
  LET msg == Msg(source, text, kind) IN
  runAgents([st EXCEPT !.chatMessages = Append(@, msg)], msg)

(* the session as the running handler finds it *)
Cur ==
  [signals |-> signals, chatMessages |-> chatMessages, liveSummary |-> liveSummary,
   previousRecommendation |-> previousRecommendation, renders |-> 0]

(* the handler's result becomes the next state; the caps keep the model finite *)
Commit(st) ==
  /\ st.signals.attemptCount <= MaxAttempts
  /\ st.signals.timeBlockedMin <= MaxTime
  /\ Len(st.chatMessages) <= MaxMsgs
  /\ signals' = st.signals
  /\ chatMessages' = st.chatMessages
  /\ liveSummary' = st.liveSummary
  /\ previousRecommendation' = st.previousRecommendation

(* ----- Actions ----- *)
(* mutant: every confirmation counts as an attempt *)
confirmActionAlwaysCounts(st) ==
  LET rec == evaluate(st.signals)
      s1 == [st.signals EXCEPT !.currentIntervention = rec.state,
                               !.attemptCount = @ + 1]
  IN render([st EXCEPT !.signals = s1])

(* mutant: the view keeps the recommendation Confirm was computed from *)
confirmActionShowsCommitted(st) ==
  LET rec == evaluate(st.signals)
      s1 == [st.signals EXCEPT !.currentIntervention = rec.state]
      s2 == IF rec.state = REMOTE THEN [s1 EXCEPT !.attemptCount = @ + 1] ELSE s1
  IN [render([st EXCEPT !.signals = s2]) EXCEPT
        !.previousRecommendation = [state |-> rec.state, priority |-> rec.priority]]

confirmAction(st) ==
  LET rec == evaluate(st.signals)
      s1 == [st.signals EXCEPT !.currentIntervention = rec.state]
      s2 == IF rec.state = REMOTE THEN [s1 EXCEPT !.attemptCount = @ + 1] ELSE s1
  IN render([st EXCEPT !.signals = s2])

(* mutant: the step up is taken from currentIntervention *)
escalateActionFromCurrent(st) ==
  LET idx == indexOf(st.signals.currentIntervention)
      nextIdx == Min(idx + 1, Len(ladder) - 1)
      escalated == ladder[nextIdx + 1]
      s1 == [st.signals EXCEPT !.currentIntervention = escalated]
      s2 == IF escalated = REMOTE THEN [s1 EXCEPT !.attemptCount = @ + 1] ELSE s1
  IN render([st EXCEPT !.signals = s2])

escalateAction(st) ==
  LET rec == evaluate(st.signals)
      idx == indexOf(rec.state)
      nextIdx == Min(idx + 1, Len(ladder) - 1)
      escalated == ladder[nextIdx + 1]
      s1 == [st.signals EXCEPT !.currentIntervention = escalated]
      s2 == IF escalated = REMOTE THEN [s1 EXCEPT !.attemptCount = @ + 1] ELSE s1
  IN render([st EXCEPT !.signals = s2])

(* the values els.overrideSelect.value can hold: the four tiers, and ""    *)
(* when no option is selected                                              *)
OverrideValues == {MONITOR, REMOTE, FIELD, SERVICE, ""}

(* mutant: choosing RemoteAssist is not counted as an attempt *)
applyOverrideActionUncounted(st, chosen) ==
  LET s1 == [st.signals EXCEPT !.currentIntervention = chosen]
  IN render([st EXCEPT !.signals = s1])

applyOverrideAction(st, chosen) ==
  LET s1 == [st.signals EXCEPT !.currentIntervention = chosen]
      s2 == IF chosen = REMOTE THEN [s1 EXCEPT !.attemptCount = @ + 1] ELSE s1
  IN render([st EXCEPT !.signals = s2])

(* ----- Scenario presets ----- *)
Preset(c, t, r, p, d) ==
  [condition |-> c, timeBlockedMin |-> t, riderOnboard |-> r,
   policePresent |-> p, drivable |-> d]

ScenarioKeys == {"blocked1", "blocked6", "stuckRider", "stuckPolice", "degradedND"}

scenarios ==
  [k \in ScenarioKeys |->
     CASE k = "blocked1" -> Preset(BLOCKED, 1, TRUE, FALSE, TRUE)
       [] k = "blocked6" -> Preset(BLOCKED, 6, TRUE, FALSE, TRUE)
       [] k = "stuckRider" -> Preset(STUCK, 4, TRUE, FALSE, TRUE)
       [] k = "stuckPolice" -> Preset(STUCK, 3, FALSE, TRUE, FALSE)
       [] k = "degradedND" -> Preset(DEGRADED, 0, FALSE, FALSE, FALSE)]

(* the data-scenario values of the buttons: the presets and a name that    *)
(* scenarios does not hold                                                 *)
ScenarioInputs == ScenarioKeys \cup {"unknown"}

(* mutant: the attempt history survives the scenario switch *)
applyScenarioKeepHistory(st, key) ==
  IF key \notin ScenarioKeys THEN st
  ELSE LET next == scenarios[key]
           s1 == [st.signals EXCEPT
                    !.condition = next.condition,
                    !.timeBlockedMin = next.timeBlockedMin,
                    !.riderOnboard = next.riderOnboard,
                    !.policePresent = next.policePresent,
                    !.drivable = next.drivable]
       IN render([st EXCEPT !.signals = s1])

applyScenario(st, key) ==
  IF key \notin ScenarioKeys THEN st
  ELSE LET next == scenarios[key]
           s1 == [st.signals EXCEPT
                    !.condition = next.condition,
                    !.timeBlockedMin = next.timeBlockedMin,
                    !.riderOnboard = next.riderOnboard,
                    !.policePresent = next.policePresent,
                    !.drivable = next.drivable,
                    !.currentIntervention = "none",
                    !.attemptCount = 0]
       IN render([st EXCEPT !.signals = s1])

(* ----- Demo tools ----- *)
(* mutant: the step is subtracted *)
add5minMinus(st) ==
  LET s1 == [st.signals EXCEPT !.timeBlockedMin = Max(0, @ - 5)]
  IN render([st EXCEPT !.signals = s1])

add5min(st) ==
  LET s1 == [st.signals EXCEPT !.timeBlockedMin = Max(0, @ + 5)]
  IN render([st EXCEPT !.signals = s1])

(* mutant: the reset also clears the committed intervention *)
resetAttemptsAndIntervention(st) ==
  LET s1 == [st.signals EXCEPT !.attemptCount = 0, !.currentIntervention = "none"]
  IN render([st EXCEPT !.signals = s1])

resetAttempts(st) ==
  LET s1 == [st.signals EXCEPT !.attemptCount = 0]
  IN render([st EXCEPT !.signals = s1])

(* ----- Event wiring ----- *)
Confirm == Commit(confirmAction(Cur)) /\ UNCHANGED pending

Escalate == Commit(escalateAction(Cur)) /\ UNCHANGED pending

OverrideTo(chosen) == Commit(applyOverrideAction(Cur, chosen)) /\ UNCHANGED pending

Override == \E chosen \in OverrideValues : OverrideTo(chosen)

(* mutant: loading a preset cancels the calls in flight *)
ScenarioToCancelling(key) == Commit(applyScenario(Cur, key)) /\ pending' = << >>

ScenarioTo(key) == Commit(applyScenario(Cur, key)) /\ UNCHANGED pending

Scenario == \E key \in ScenarioInputs : ScenarioTo(key)

AdvanceTime == Commit(add5min(Cur)) /\ UNCHANGED pending

ResetAttempts == Commit(resetAttempts(Cur)) /\ UNCHANGED pending

(* an inject button: addChatMessage(src, msg) *)
InjectChat == \E text \in ChatTexts :
  Commit(addChatMessage(Cur, "Ops", text, "human")) /\ UNCHANGED pending

(* ----- Ask input ----- *)
(* a question: its text and which of the fallback's patterns match it *)
Question(text, eta, rider, police, failed) ==
  [text |-> text, eta |-> eta, rider |-> rider, police |-> police, failed |-> failed]

AskTexts ==
  { Question(Txt("Have police arrived?", {POLICE_ARRIVED}, ""), FALSE, FALSE, TRUE, FALSE) }

plain(lit) == Txt(lit, {}, "")

(* an entry of new_signals *)
Entry(k, v) == [k |-> k, v |-> v]

(* what cloudChatAnswer resolves with: a string, or the structured object; *)
(* answer "" stands for a missing or empty answer, severity_delta << >>    *)
(* for one that is no number                                               *)
Resp(isString, answer, new_signals, severity_delta) ==
  [isString |-> isString, answer |-> answer, new_signals |-> new_signals,
   severity_delta |-> severity_delta]

agentAnswer == plain("Police are on scene.")

Responses ==
  { Resp(TRUE, agentAnswer, << >>, << >>),
    Resp(FALSE, plain(""), << >>, << >>),
    Resp(FALSE, agentAnswer, << >>, <<60>>),
    Resp(FALSE, agentAnswer,
         <<Entry("policePresent", FALSE), Entry("injuries", "none")>>, <<60>>),
    Resp(FALSE, agentAnswer,
         <<Entry("currentIntervention", REMOTE), Entry("attemptCount", 0)>>, << >>),
    Resp(FALSE, agentAnswer, <<Entry("timeBlockedMin", 0)>>, << >>) }

RECURSIVE promoteEntriesFrom(_, _, _)
(* Object.entries(new_signals).forEach(...) from entry i on; the literal   *)
(* of the notification names the key only: its value part holds none of    *)
(* the phrases the agents look for                                         *)
promoteEntriesFrom(st, entries, i) ==
  IF i > Len(entries) THEN st
  ELSE LET e == entries[i] IN
       IF st.signals[e.k] # e.v
         THEN promoteEntriesFrom(
                addChatMessage([st EXCEPT !.signals[e.k] = e.v], "System",
                               plain("Signal promoted: " \o e.k), "system"),
                entries, i + 1)
         ELSE promoteEntriesFrom(st, entries, i + 1)

(* const current = typeof severityScore === 'number' ? severityScore : ... *)
currentSeverity(s) ==
  IF s.severityScore # Null THEN s.severityScore
  ELSE severityPosition(evaluate(s).state)

(* if (typeof severity_delta === 'number') signals.severityScore = ... *)
(* mutant: the adjusted score is stored without the clamp *)
adjustSeverityUnclamped(st, severity_delta) ==
  IF Len(severity_delta) = 1
    THEN [st EXCEPT !.signals.severityScore =
            currentSeverity(st.signals) + severity_delta[1]]
    ELSE st

adjustSeverity(st, severity_delta) ==
  IF Len(severity_delta) = 1
    THEN [st EXCEPT !.signals.severityScore =
            Max(0, Min(100, currentSeverity(st.signals) + severity_delta[1]))]
    ELSE st

(* if (answer) addChatMessage('DECIDE', answer, 'agent') *)
postAnswer(st, answer) ==
  IF answer.lit # "" THEN addChatMessage(st, "DECIDE", answer, "agent") ELSE st

(* the .then callback of handleAsk *)
handleAskThen(st, resp) ==
  IF resp.isString THEN addChatMessage(st, "DECIDE", resp.answer, "agent")
  ELSE render(adjustSeverity(
                promoteEntriesFrom(postAnswer(st, resp.answer), resp.new_signals, 1),
                resp.severity_delta))

(* the .catch callback of handleAsk *)
handleAskCatch(st, q) ==
  LET s == st.signals
      reply ==
        IF q.eta THEN
          (IF s.towEtaMin # Null THEN "Tow ETA ~" \o ToString(s.towEtaMin) \o " minutes."
           ELSE "No tow ETA available yet.")
        ELSE IF q.rider THEN
          (IF s.riderState # "null" THEN "Rider appears " \o s.riderState \o "."
           ELSE "No rider distress reported.")
        ELSE IF q.police THEN
          (IF s.policePresent THEN "Police on scene." ELSE "No police on scene.")
        ELSE IF q.failed THEN
          (IF s.remoteAssistFailed THEN "Remote assist has failed."
           ELSE "No remote assist failure reported.")
        ELSE "No additional context beyond signals and summary."
  IN addChatMessage(st, "DECIDE", plain(reply), "agent")

remove(q, i) == SubSeq(q, 1, i - 1) \o SubSeq(q, i + 1, Len(q))

(* handleAsk up to the call of cloudChatAnswer, which is left pending *)
Ask == \E q \in AskTexts :
  /\ Len(pending) < MaxPending
  /\ Commit(addChatMessage(Cur, "Operator", q.text, "human"))
  /\ pending' = Append(pending, q)

(* a pending call resolves *)
QAResolve == \E i \in 1..Len(pending), resp \in Responses :
  /\ Commit(handleAskThen(Cur, resp))
  /\ pending' = remove(pending, i)


(* a pending call rejects *)
QAReject == \E i \in 1..Len(pending) :
  /\ Commit(handleAskCatch(Cur, pending[i]))
  /\ pending' = remove(pending, i)

(* ----- Initial render and seed message (app.js 587-592) ----- *)
NoRecommendation == [state |-> "null", priority |-> "null"]

Constructed ==
  addChatMessage(
    render([signals |-> initialSignals, chatMessages |-> << >>, liveSummary |-> << >>,
            previousRecommendation |-> NoRecommendation, renders |-> 0]),
    "Mission Control", seedText, "human")

Init ==
  /\ signals = Constructed.signals
  /\ chatMessages = Constructed.chatMessages
  /\ liveSummary = Constructed.liveSummary
  /\ previousRecommendation = Constructed.previousRecommendation
  /\ pending = << >>

Next ==
  \/ Confirm
  \/ Escalate
  \/ Override
  \/ Scenario
  \/ AdvanceTime
  \/ ResetAttempts
  \/ InjectChat
  \/ Ask
  \/ QAResolve
  \/ QAReject

Spec == Init /\ [][Next]_vars

(* ----- The evaluator on every Signal Store state ----- *)
SignalStates ==
  { [initialSignals EXCEPT
       !.condition = c, !.timeBlockedMin = t, !.riderOnboard = r,
       !.policePresent = p, !.drivable = d, !.currentIntervention = ci,
       !.attemptCount = n, !.remoteAssistFailed = f, !.lanePartiallyBlocked = l] :
      c \in {BLOCKED, STUCK, DEGRADED}, t \in 0..MaxTime, r \in BOOLEAN,
      p \in BOOLEAN, d \in BOOLEAN,
      ci \in {"none", MONITOR, REMOTE, FIELD, SERVICE}, n \in 0..MaxAttempts,
      f \in BOOLEAN, l \in BOOLEAN }

InitEval ==
  /\ signals \in SignalStates
  /\ chatMessages = Constructed.chatMessages
  /\ liveSummary = Constructed.liveSummary
  /\ previousRecommendation = NoRecommendation
  /\ pending = << >>

(* render() on the store as it is *)
Render == Commit(render(Cur)) /\ UNCHANGED pending

SpecEval == InitEval /\ [][Render]_vars

(* ----- Several questions outstanding ----- *)
(* the questions of this part: the police question and one that matches    *)
(* /eta|tow/i and names no fact                                            *)
AskQuestions ==
  AskTexts \cup
    { Question(Txt("What is the tow ETA?", {}, ""), TRUE, FALSE, FALSE, FALSE) }

(* handleAsk, with up to MaxOutstanding calls of cloudChatAnswer unsettled *)
AskOutstanding == \E q \in AskQuestions :
  /\ Len(pending) < MaxOutstanding
  /\ Commit(addChatMessage(Cur, "Operator", q.text, "human"))
  /\ pending' = Append(pending, q)

(* responses whose new_signals carry a tow ETA, with and without an answer *)
TowResponses ==
  { Resp(FALSE, agentAnswer, <<Entry("towEtaMin", 20)>>, << >>),
    Resp(FALSE, plain(""), <<Entry("towEtaMin", 20)>>, << >>) }

QAResolveTowEta == \E i \in 1..Len(pending), resp \in TowResponses :
  /\ Commit(handleAskThen(Cur, resp))
  /\ pending' = remove(pending, i)

NextQA ==
  \/ AskOutstanding
  \/ QAResolve
  \/ QAResolveTowEta
  \/ QAReject
  \/ Scenario
  \/ InjectChat

SpecQA == Init /\ [][NextQA]_vars

(* ======================================================================= *)
(* Properties                                                              *)
(* ======================================================================= *)

Tier(state) == indexOf(state)

Shown(state, priority) == [state |-> state, priority |-> priority]

Rendered == previousRecommendation # NoRecommendation

(* the precondition of the closed loop as the claims state it *)
RemoteAssistFailing(s) ==
  /\ s.currentIntervention = REMOTE
  /\ s.attemptCount >= 1
  /\ s.condition \in {BLOCKED, STUCK}
  /\ s.timeBlockedMin >= 5

(* C1: in every Signal Store state with currentIntervention = RemoteAssist, *)
(* attemptCount >= 1, condition Blocked or Stuck and timeBlockedMin >= 5,  *)
(* evaluate returns FieldRecovery / High / "Remote assist failed to        *)
(* resolve", and that is what a render shows, whichever base rule matched. *)
C1_ClosedLoopIsFieldHigh ==
  RemoteAssistFailing(signals) =>
    /\ evaluate(signals).state = FIELD
    /\ evaluate(signals).priority = HIGH
    /\ evaluate(signals).oneLineWhy = "Remote assist failed to resolve"
    /\ Rendered => previousRecommendation = Shown(FIELD, HIGH)

(* the closed loop rendered over base rule 5 (Stuck, no police, no rider) *)
C1_Witness ==
  /\ RemoteAssistFailing(signals)
  /\ signals.condition = STUCK /\ ~signals.policePresent /\ ~signals.riderOnboard
  /\ previousRecommendation = Shown(FIELD, HIGH)

(* C2: in every Signal Store state with condition = Degraded and drivable  *)
(* false, evaluate returns Service / High / "Not drivable while degraded", *)
(* whatever the other fields are, a committed RemoteAssist with attempts   *)
(* and any timeBlockedMin included.                                        *)
C2_DegradedNotDrivableIsService ==
  (signals.condition = DEGRADED /\ ~signals.drivable) =>
    /\ evaluate(signals).state = SERVICE
    /\ evaluate(signals).priority = HIGH
    /\ evaluate(signals).oneLineWhy = "Not drivable while degraded"
    /\ Rendered => previousRecommendation = Shown(SERVICE, HIGH)

(* Service rendered with a failed remote attempt on record and time >= 5 *)
C2_Witness ==
  /\ signals.condition = DEGRADED /\ ~signals.drivable
  /\ signals.currentIntervention = REMOTE /\ signals.attemptCount >= 1
  /\ signals.timeBlockedMin >= 5
  /\ previousRecommendation = Shown(SERVICE, HIGH)

(* the five-rule table of the claim: state, priority, rationale *)
FirstMatch(s) ==
  CASE s.condition = DEGRADED /\ ~s.drivable ->
         <<SERVICE, HIGH, "Not drivable while degraded">>
    [] s.condition = STUCK /\ s.policePresent ->
         <<FIELD, HIGH, "Stuck with police on scene">>
    [] s.condition = STUCK /\ ~s.policePresent /\ s.riderOnboard ->
         <<REMOTE, HIGH, "Stuck with rider onboard">>
    [] s.condition = BLOCKED /\ s.timeBlockedMin >= 5 ->
         <<REMOTE, MEDIUM, "Blocked >=5 min">>
    [] OTHER -> <<MONITOR, LOW, "Transient or minor">>

(* C3: evaluate is total (it returns one of the four tiers with a priority *)
(* in every state) and, wherever the closed-loop override does not apply,  *)
(* it equals the five-rule first-match table.                              *)
C3_FirstMatchTable ==
  /\ evaluate(signals).state \in {MONITOR, REMOTE, FIELD, SERVICE}
  /\ evaluate(signals).priority \in {LOW, MEDIUM, HIGH}
  /\ ~RemoteAssistFailing(signals) =>
       /\ <<evaluate(signals).state, evaluate(signals).priority,
            evaluate(signals).oneLineWhy>> = FirstMatch(signals)
       /\ Rendered => previousRecommendation =
                        Shown(FirstMatch(signals)[1], FirstMatch(signals)[2])

(* rule 2 rendered ahead of rule 3, with a rider onboard and not drivable *)
C3_Witness ==
  /\ ~RemoteAssistFailing(signals)
  /\ signals.condition = STUCK /\ signals.policePresent
  /\ signals.riderOnboard /\ ~signals.drivable
  /\ previousRecommendation = Shown(FIELD, HIGH)

(* C5: in every Signal Store state the tier evaluate returns is, on the    *)
(* ladder Monitor < RemoteAssist < FieldRecovery < Service, at or above    *)
(* the tier of the base rules alone.                                       *)
C5_OverrideNeverDeEscalates ==
  /\ Tier(evaluate(signals).state) >= Tier(baseRec(signals, signals).state)
  /\ Rendered => Tier(previousRecommendation.state)
                   >= Tier(baseRec(signals, signals).state)

(* the override rendered where the base rules already say FieldRecovery *)
C5_Witness ==
  /\ RemoteAssistFailing(signals)
  /\ baseRec(signals, signals).state = FIELD
  /\ previousRecommendation = Shown(FIELD, HIGH)

(* the four keys the promotion contract names *)
AllowListed == {"policePresent", "remoteAssistFailed", "towEtaMin", "lanePartiallyBlocked"}

(* a step that is one addChatMessage call: an injected message, the        *)
(* operator's question, the canned reply                                   *)
ChatStep ==
  /\ Len(chatMessages') > Len(chatMessages)
  /\ (InjectChat \/ Ask \/ QAReject)

(* evaluate answers through the closed-loop override *)
Fired(s) == evaluate(s).oneLineWhy = "Remote assist failed to resolve"

C6_AdvanceTimeAfterRemoteAssist ==
  [][/\ (/\ AdvanceTime
         /\ signals.currentIntervention = REMOTE /\ signals.attemptCount >= 1
         /\ signals.condition \in {BLOCKED, STUCK})
        => /\ previousRecommendation' = Shown(FIELD, HIGH)
           /\ evaluate(signals').state = FIELD
           /\ evaluate(signals').oneLineWhy = "Remote assist failed to resolve"
     /\ ScenarioTo("blocked6")
        => /\ signals'.condition = BLOCKED /\ signals'.timeBlockedMin = 6
           /\ signals'.currentIntervention = "none" /\ signals'.attemptCount = 0
           /\ previousRecommendation' = Shown(REMOTE, MEDIUM)
     /\ (/\ Confirm
         /\ signals.condition = BLOCKED /\ signals.timeBlockedMin = 6
         /\ signals.currentIntervention = "none" /\ signals.attemptCount = 0)
        => /\ signals'.currentIntervention = REMOTE /\ signals'.attemptCount = 1
           /\ signals'.timeBlockedMin = 6 /\ signals'.condition = BLOCKED
     /\ (/\ AdvanceTime
         /\ signals.condition = BLOCKED /\ signals.timeBlockedMin = 6
         /\ signals.currentIntervention = REMOTE /\ signals.attemptCount = 1)
        => /\ signals'.timeBlockedMin = 11 /\ signals'.attemptCount = 1
           /\ previousRecommendation' = Shown(FIELD, HIGH)
           /\ evaluate(signals').oneLineWhy = "Remote assist failed to resolve"]_vars

(* the end of the demo trace *)
C6_Witness ==
  /\ signals.condition = BLOCKED /\ signals.timeBlockedMin = 11
  /\ signals.currentIntervention = REMOTE /\ signals.attemptCount = 1
  /\ signals.riderOnboard /\ ~signals.policePresent /\ signals.drivable
  /\ previousRecommendation = Shown(FIELD, HIGH)

(* C7: processing a chat message changes no Signal Store field other than  *)
(* policePresent, remoteAssistFailed, towEtaMin and lanePartiallyBlocked;  *)
(* candidates with other keys (riderState, injuries) are never written.    *)
C7_ChatWritesOnlyAllowListed ==
  [][ChatStep =>
       /\ DOMAIN signals' = DOMAIN signals
       /\ \A k \in DOMAIN signals \ AllowListed : signals'[k] = signals[k]]_vars

(* "rider anxious" and "lane partially blocked" arrived in one message:    *)
(* the lane signal was promoted, riderState was not                        *)
C7_Witness ==
  /\ \E i \in 1..Len(chatMessages) :
       {RIDER_ANXIOUS, LANE_BLOCKED} \subseteq chatMessages[i].text.ph
  /\ signals.lanePartiallyBlocked
  /\ signals.riderState = "null"

(* C8, as claimed: applying a Q&A response writes new_signals entries only *)
(* for allow-listed keys; unknown keys are ignored and currentIntervention,*)
(* attemptCount, condition, timeBlockedMin, riderOnboard and drivable are  *)
(* never changed (severityScore is adjusted by severity_delta).            *)
C8_ResponseWritesOnlyAllowListed ==
  [][QAResolve =>
       /\ DOMAIN signals' = DOMAIN signals
       /\ \A k \in DOMAIN signals \ (AllowListed \cup {"severityScore"}) :
            signals'[k] = signals[k]]_vars

(* the texts a chat message can carry in: injected, asked, answered *)
SendableTexts == ChatTexts \cup {q.text : q \in AskTexts} \cup {agentAnswer}

(* C9: in every reachable state and for every message that can arrive, a   *)
(* candidate whose value equals the stored value of its key is not in the  *)
(* list the gate returns; and when every candidate is such a no-op or has  *)
(* a key outside the allow-list, the handler leaves the Signal Store as it *)
(* was, appends the message and nothing else, calls render zero times and  *)
(* leaves the displayed recommendation as it was.                          *)
C9_NoOpCandidatesChangeNothing ==
  \A text \in SendableTexts :
    LET msg == Msg("Ops", text, "human")
        all == Append(chatMessages, msg)
        ex == extractSignals(msg, aggregateSummary(all))
        g == promoteRelevantSignals(signals, ex)
        r == addChatMessage(Cur, "Ops", text, "human")
        noop(p) == p.key \notin AllowListed \/ signals[p.key] = p.value
    IN /\ \A i \in 1..Len(ex) : noop(ex[i]) => ex[i] \notin Range(g.promoted)
       /\ (\A i \in 1..Len(ex) : noop(ex[i]))
            => /\ g.promoted = << >>
               /\ r.signals = signals
               /\ r.chatMessages = all
               /\ r.renders = 0
               /\ r.previousRecommendation = previousRecommendation

(* a tow message whose ETA was already stored went through: it is the last *)
(* message, no notification follows it                                     *)
C9_Witness ==
  LET last == chatMessages[Len(chatMessages)] IN
  /\ Len(chatMessages) >= 4
  /\ last.kind = "human" /\ last.text.tow # ""
  /\ signals.towEtaMin = parseInt(last.text.tow)
  /\ \E i \in 1..(Len(chatMessages) - 1) :
       chatMessages[i].kind = "system" /\ chatMessages[i].text.tow = last.text.tow

(* C10: a chat step appends the message and exactly one system             *)
(* notification per change the gate applied for that message, in the       *)
(* gate's order, and the Signal Store after the step is the gate's result: *)
(* the pipeline runs on the notifications apply and append nothing; a      *)
(* message whose only phrase is "police arrived", with policePresent       *)
(* false, yields exactly one notification.                                 *)
C10_OneNotificationPerAppliedChange ==
  [][ChatStep =>
       LET n == Len(chatMessages)
           msg == chatMessages'[n + 1]
           ex == extractSignals(msg, aggregateSummary(Append(chatMessages, msg)))
           g == promoteRelevantSignals(signals, ex)
       IN /\ Len(chatMessages') = n + 1 + Len(g.promoted)
          /\ SubSeq(chatMessages', 1, n) = chatMessages
          /\ msg.kind # "system"
          /\ \A i \in 1..Len(g.promoted) :
               chatMessages'[n + 1 + i] =
                 Msg("System", notificationText(g.promoted[i].label), "system")
          /\ signals' = g.signals
          /\ (msg.text.ph = {POLICE_ARRIVED} /\ msg.text.tow = "" /\ ~signals.policePresent)
               => /\ Len(chatMessages') = n + 2
                  /\ chatMessages'[n + 2].text.lit = "New signal detected: Police present"
                  /\ signals'.policePresent]_vars

(* the operator's police question is followed by its one notification and  *)
(* by nothing else                                                         *)
C10_Witness ==
  LET n == Len(chatMessages) IN
  /\ n >= 3
  /\ chatMessages[n - 1].kind = "human"
  /\ chatMessages[n - 1].text.ph = {POLICE_ARRIVED}
  /\ chatMessages[n].kind = "system"
  /\ chatMessages[n].text.lit = "New signal detected: Police present"
  /\ signals.policePresent
  /\ pending # << >>

(* C11: after any step in which the pipeline processed a chat message (an  *)
(* injected message, a question, a fallback reply, or the messages of a    *)
(* Q&A response), if the Live Summary contains "Police on scene" then      *)
(* policePresent is true, also when a Scenario load had set it to false.   *)
C11_SummaryPoliceImpliesSignal ==
  [][Len(chatMessages') > Len(chatMessages)
     => ("Police on scene" \in Range(liveSummary') => signals'.policePresent)]_vars

(* a fallback reply, which names no police, is followed by the "Police     *)
(* present" notification: the summary-level path promoted the signal again *)
(* after it had been set back to false                                     *)
C11_Witness ==
  LET n == Len(chatMessages) IN
  /\ n >= 2
  /\ chatMessages[n - 1].kind = "agent"
  /\ chatMessages[n].text.lit = "New signal detected: Police present"
  /\ "Police on scene" \in Range(liveSummary)
  /\ signals.policePresent

(* C12: Confirm sets currentIntervention to the state evaluate returns on  *)
(* the pre-state, adds exactly 1 to attemptCount if and only if that state *)
(* is RemoteAssist, and leaves every other field of the Signal Store as it *)
(* was.                                                                    *)
C12_ConfirmCommitsRecommendation ==
  [][Confirm =>
       LET rec == evaluate(signals) IN
       /\ signals'.currentIntervention = rec.state
       /\ signals'.attemptCount =
            IF rec.state = REMOTE THEN signals.attemptCount + 1
            ELSE signals.attemptCount
       /\ DOMAIN signals' = DOMAIN signals
       /\ \A k \in DOMAIN signals \ {"currentIntervention", "attemptCount"} :
            signals'[k] = signals[k]]_vars

(* the stuckRider preset with its recommendation, RemoteAssist, committed  *)
(* once                                                                    *)
C12_Witness ==
  /\ signals.condition = STUCK /\ signals.timeBlockedMin = 4
  /\ signals.riderOnboard /\ ~signals.policePresent
  /\ signals.currentIntervention = REMOTE /\ signals.attemptCount = 1
  /\ previousRecommendation = Shown(REMOTE, HIGH)

(* C13: Escalate sets currentIntervention to the tier one step above the   *)
(* recommended state on the ladder, Service staying Service, whatever      *)
(* currentIntervention was; that tier is never below the one Confirm would *)
(* commit from the same pre-state; attemptCount grows by 1 if and only if  *)
(* the escalated tier is RemoteAssist.                                     *)
C13_EscalateStepsUpFromRecommendation ==
  [][Escalate =>
       LET rec == evaluate(signals)
           up == CASE rec.state = MONITOR -> REMOTE
                   [] rec.state = REMOTE -> FIELD
                   [] rec.state = FIELD -> SERVICE
                   [] rec.state = SERVICE -> SERVICE
       IN /\ signals'.currentIntervention = up
          /\ Tier(signals'.currentIntervention) >= Tier(rec.state)
          /\ signals'.attemptCount =
               IF up = REMOTE THEN signals.attemptCount + 1 ELSE signals.attemptCount
          /\ \A k \in DOMAIN signals \ {"currentIntervention", "attemptCount"} :
               signals'[k] = signals[k]]_vars

(* the closed loop recommended FieldRecovery and the escalation went to    *)
(* Service, on a Blocked vehicle that no base rule sends to Service        *)
C13_Witness ==
  /\ signals.condition = BLOCKED /\ signals.timeBlockedMin >= 5
  /\ signals.currentIntervention = SERVICE /\ signals.attemptCount = 1
  /\ previousRecommendation = Shown(REMOTE, MEDIUM)

(* the four tiers an Override may name *)
Tiers == {MONITOR, REMOTE, FIELD, SERVICE}

(* C14: an Override whose target is not one of Monitor, RemoteAssist,      *)
(* FieldRecovery, Service changes no field of the Signal Store and does    *)
(* not re-evaluate: the store and the displayed recommendation stay as     *)
(* they were.                                                              *)
C14_InvalidOverrideIsNoOp ==
  [][\A chosen \in OverrideValues \ Tiers :
       OverrideTo(chosen)
         => /\ signals' = signals
            /\ previousRecommendation' = previousRecommendation]_vars

(* C15: an Override to one of the four tiers sets currentIntervention to   *)
(* that tier whatever the recommendation is, adds 1 to attemptCount if and *)
(* only if the tier is RemoteAssist, and leaves every other field          *)
(* (condition, timeBlockedMin, the boolean signals) as it was.             *)
C15_OverrideCommitsChosenTier ==
  [][\A chosen \in Tiers :
       OverrideTo(chosen)
         => /\ signals'.currentIntervention = chosen
            /\ signals'.attemptCount =
                 IF chosen = REMOTE THEN signals.attemptCount + 1
                 ELSE signals.attemptCount
            /\ \A k \in DOMAIN signals \ {"currentIntervention", "attemptCount"} :
                 signals'[k] = signals[k]]_vars

(* RemoteAssist was chosen and counted on a vehicle whose recommendation,  *)
(* with or without the attempt, is Service: only an Override commits that  *)
C15_Witness ==
  /\ signals.condition = DEGRADED /\ ~signals.drivable
  /\ signals.currentIntervention = REMOTE /\ signals.attemptCount = 1
  /\ previousRecommendation = Shown(SERVICE, HIGH)
  /\ \A i \in 1..Len(chatMessages) : chatMessages[i].kind # "system"

(* C16: loading a known preset, from any state, gives currentIntervention  *)
(* none and attemptCount 0, sets condition, timeBlockedMin, riderOnboard,  *)
(* policePresent and drivable to the preset's values and leaves every      *)
(* other field, the transcript and the Live Summary as they were; an       *)
(* unknown preset name changes nothing.                                    *)
C16_ScenarioReplacesStructuredFields ==
  [][\A key \in ScenarioInputs :
       ScenarioTo(key)
         => IF key \in ScenarioKeys
              THEN /\ signals'.currentIntervention = "none"
                   /\ signals'.attemptCount = 0
                   /\ signals'.condition = scenarios[key].condition
                   /\ signals'.timeBlockedMin = scenarios[key].timeBlockedMin
                   /\ signals'.riderOnboard = scenarios[key].riderOnboard
                   /\ signals'.policePresent = scenarios[key].policePresent
                   /\ signals'.drivable = scenarios[key].drivable
                   /\ \A k \in {"towEtaMin", "riderState", "remoteAssistFailed",
                                "lanePartiallyBlocked", "severityScore", "injuries"} :
                        signals'[k] = signals[k]
                   /\ chatMessages' = chatMessages
                   /\ liveSummary' = liveSummary
              ELSE UNCHANGED vars]_vars

(* a preset loaded over promoted chat signals and a committed attempt *)
C16_Witness ==
  /\ signals.condition = DEGRADED /\ signals.timeBlockedMin = 0
  /\ signals.currentIntervention = "none" /\ signals.attemptCount = 0
  /\ signals.towEtaMin = 12 /\ ~signals.policePresent
  /\ "Police on scene" \in Range(liveSummary)

(* C17: in every step, attemptCount stays a non-negative integer, goes     *)
(* down only in a Reset attempts or Scenario load step, and goes up, by    *)
(* exactly 1, only in a Confirm, Escalate or Override step that commits    *)
(* RemoteAssist.                                                           *)
C17_AttemptCountDiscipline ==
  [][/\ signals'.attemptCount \in Nat
     /\ signals'.attemptCount < signals.attemptCount => (ResetAttempts \/ Scenario)
     /\ signals'.attemptCount > signals.attemptCount
          => /\ signals'.attemptCount = signals.attemptCount + 1
             /\ signals'.currentIntervention = REMOTE
             /\ (Confirm \/ Escalate \/ Override)]_vars

(* C18: in every reachable state, that is after every completed operation, *)
(* the state and priority recorded by the last render are those of         *)
(* evaluate on the current Signal Store.                                   *)
C18_DisplayedIsEvaluated ==
  previousRecommendation =
    Shown(evaluate(signals).state, evaluate(signals).priority)

(* police were promoted from the chat onto the stuckRider preset and the   *)
(* display moved from RemoteAssist to FieldRecovery                        *)
C18_Witness ==
  /\ signals.condition = STUCK /\ signals.riderOnboard /\ signals.policePresent
  /\ signals.currentIntervention = "none"
  /\ previousRecommendation = Shown(FIELD, HIGH)
  /\ chatMessages[Len(chatMessages)].text.lit = "New signal detected: Police present"

(* C19: Reset attempts sets attemptCount to 0 and leaves currentIntervention *)
(* and every other field as it was; from a state where the closed-loop     *)
(* override answered, the recommendation evaluated and displayed after the *)
(* reset is the base-rule result for the same signals.                     *)
C19_ResetAttemptsOnly ==
  [][ResetAttempts =>
       /\ signals' = [signals EXCEPT !.attemptCount = 0]
       /\ Fired(signals)
            => LET base == baseRec(signals', signals') IN
               /\ evaluate(signals') = base
               /\ previousRecommendation' = Shown(base.state, base.priority)
               /\ base.state = baseRec(signals, signals).state
               /\ base.priority = baseRec(signals, signals).priority]_vars

(* RemoteAssist is still the committed intervention, its attempts are      *)
(* cleared and the base rule 4 is displayed; no Q&A response wrote either  *)
(* field                                                                   *)
C19_Witness ==
  /\ signals.condition = BLOCKED /\ signals.timeBlockedMin >= 5
  /\ signals.currentIntervention = REMOTE /\ signals.attemptCount = 0
  /\ previousRecommendation = Shown(REMOTE, MEDIUM)
  /\ \A i \in 1..Len(chatMessages) :
       chatMessages[i].text.lit \notin
         {"Signal promoted: currentIntervention", "Signal promoted: attemptCount"}

(* C20: Advance time adds exactly 5 to timeBlockedMin and changes no other *)
(* field; timeBlockedMin is a non-negative integer in every reachable      *)
(* state and goes down only in a Scenario load step.                       *)
C20_TimeOnlyAdvances ==
  [][/\ AdvanceTime => signals' = [signals EXCEPT !.timeBlockedMin = @ + 5]
     /\ signals'.timeBlockedMin \in Nat
     /\ signals'.timeBlockedMin < signals.timeBlockedMin => Scenario]_vars

(* the phrases some message of the transcript contains *)
Recognised(msgs) == UNION {msgs[i].text.ph : i \in 1..Len(msgs)}

(* a text that bears a fact, every fact of which the transcript already    *)
(* holds                                                                   *)
RepeatsFact(text) ==
  /\ text.ph # {} \/ text.tow # ""
  /\ text.ph \subseteq Recognised(chatMessages)
  /\ text.tow # "" => \E i \in 1..Len(chatMessages) : chatMessages[i].text.tow # ""

(* C22: for every reachable transcript, aggregateSummary returns at most 5 *)
(* entries, all different; the summary the program computed is what        *)
(* running it again on the transcript returns; and after appending a       *)
(* message that repeats facts already recognised the result is the same    *)
(* ordered list.                                                           *)
C22_SummaryCappedAndStable ==
  LET a == aggregateSummary(chatMessages) IN
  /\ Len(a) <= 5
  /\ \A i, j \in 1..Len(a) : a[i] = a[j] => i = j
  /\ liveSummary = a
  /\ \A text \in SendableTexts :
       RepeatsFact(text)
         => aggregateSummary(Append(chatMessages, Msg("Ops", text, "human"))) = a

(* six facts are recognised in the transcript and the summary holds five:  *)
(* the sixth, "No injuries reported", was cut off                          *)
C22_Witness ==
  /\ {POLICE_ARRIVED, IMMEDIATE_REMOVAL, RIDER_ANXIOUS, ATTEMPT_FAILED,
      LANE_BLOCKED, NO_INJURIES} \subseteq Recognised(chatMessages)
  /\ Len(liveSummary) = 5
  /\ "No injuries reported" \notin Range(liveSummary)

(* the agent replies of a transcript *)
AgentReplies(msgs) == {i \in 1..Len(msgs) : msgs[i].kind = "agent"}

(* a Q&A call that failed: the promise rejects (network error, non-success *)
(* response), or it resolves with a payload that has no answer             *)
QAFailed ==
  \/ QAReject
  \/ \E i \in 1..Len(pending) :
       \E resp \in {r \in Responses : ~r.isString /\ r.answer.lit = ""} :
         /\ Commit(handleAskThen(Cur, resp))
         /\ pending' = remove(pending, i)

(* C23: whenever a Q&A call fails, exactly one canned agent reply is       *)
(* appended for the question and the step writes nothing to                *)
(* currentIntervention, attemptCount, condition, timeBlockedMin or         *)
(* severityScore; and while a call is pending, operator actions and chat   *)
(* messages can still be processed.                                        *)
C23_FailureGivesOneCannedReply ==
  [][/\ QAFailed
        => /\ Cardinality(AgentReplies(chatMessages'))
                = Cardinality(AgentReplies(chatMessages)) + 1
           /\ \A k \in {"currentIntervention", "attemptCount", "condition",
                        "timeBlockedMin", "severityScore"} :
                signals'[k] = signals[k]
     /\ pending # << >> => ENABLED (ResetAttempts \/ Scenario)]_vars

(* the anchors of the four states on the 0-100 band *)
Anchor(state) ==
  CASE state = MONITOR -> 10 [] state = REMOTE -> 40
    [] state = FIELD -> 75 [] state = SERVICE -> 95

Clamp(x) == IF x < 0 THEN 0 ELSE IF x > 100 THEN 100 ELSE x

MarkerInRange(s) ==
  /\ markerLeft(s) \in 0..100
  /\ s.severityScore = Null => markerLeft(s) = Anchor(evaluate(s).state)
  /\ s.severityScore # Null => markerLeft(s) = Clamp(s.severityScore)

(* a Q&A response carrying severity_delta d is applied *)
DeltaApplied(d) ==
  \E i \in 1..Len(pending) :
    \E resp \in {r \in Responses : ~r.isString /\ r.severity_delta = <<d>>} :
      /\ Commit(handleAskThen(Cur, resp))
      /\ pending' = remove(pending, i)

(* C24: in every state the marker position is within 0..100: the anchor   *)
(* of the recommended state while severityScore is unset, the clamped      *)
(* severityScore once it is set; a step that applies a severity_delta sets *)
(* severityScore to clamp(current + delta, 0, 100), current being the      *)
(* severityScore before, or the anchor of the recommendation on the store  *)
(* as the response's writes left it when there was none.                   *)
C24_SeverityMarkerClamped ==
  [][/\ MarkerInRange(signals) /\ MarkerInRange(signals')
     /\ \A d \in {60} :
          DeltaApplied(d)
            => LET written == [signals' EXCEPT !.severityScore = signals.severityScore]
                   current == IF signals.severityScore # Null THEN signals.severityScore
                              ELSE Anchor(evaluate(written).state)
               IN signals'.severityScore = Clamp(current + d)]_vars

(* a delta of 60 arrived over a FieldRecovery recommendation: 75 + 60 is   *)
(* stored, and shown, as 100                                               *)
C24_Witness ==
  /\ signals.severityScore = 100
  /\ markerLeft(signals) = 100
  /\ previousRecommendation = Shown(FIELD, HIGH)

(* the Q&A response resp arrives for one of the pending calls *)
ResponseApplied(resp) ==
  /\ Len(pending') < Len(pending)
  /\ \E i \in 1..Len(pending) :
       /\ pending' = remove(pending, i)
       /\ Commit(handleAskThen(Cur, resp))

(* the keys a response's new_signals name *)
KeysOf(resp) == {resp.new_signals[j].k : j \in 1..Len(resp.new_signals)}

(* C25: nothing cancels a pending call: a call leaves the pending ones     *)
(* only when its response or its failure arrives, and questions, Scenario  *)
(* loads and chat messages leave them in place; a structured               *)
(* response is applied to the Signal Store as it is when it arrives: each  *)
(* new_signals entry is stored (policePresent only until the pipeline      *)
(* promotes it again), a severity_delta moves the severityScore of that    *)
(* moment (clamped to 0..100), and the                                     *)
(* structured fields the response does not name keep the values of that    *)
(* moment, whichever of the pending calls the response settles.            *)
C25_StaleResponsesStillApplied ==
  [][/\ Len(pending') < Len(pending) => (QAResolve \/ QAResolveTowEta \/ QAReject)
     /\ Len(pending') >= Len(pending) => SubSeq(pending', 1, Len(pending)) = pending
     /\ \A resp \in {r \in Responses \cup TowResponses : ~r.isString} :
          ResponseApplied(resp)
            => /\ \A j \in 1..Len(resp.new_signals) :
                    resp.new_signals[j].k # "policePresent"
                      => signals'[resp.new_signals[j].k] = resp.new_signals[j].v
               /\ Len(resp.severity_delta) = 1
                    => /\ signals'.severityScore \in 0..100
                       /\ signals.severityScore # Null
                            => signals'.severityScore =
                                 Clamp(signals.severityScore + resp.severity_delta[1])
               /\ \A k \in {"condition", "timeBlockedMin", "riderOnboard", "drivable",
                            "currentIntervention", "attemptCount"} \ KeysOf(resp) :
                    signals'[k] = signals[k]]_vars

(* the police question was asked and notified; a Scenario load then took   *)
(* policePresent back (the second notification, after the answer, shows    *)
(* it), and the late response's severity_delta was applied on the store of *)
(* the newly loaded preset                                                 *)
C25_Witness ==
  /\ Len(chatMessages) = 5
  /\ chatMessages[2].text.lit = "Have police arrived?"
  /\ chatMessages[3].text.lit = "New signal detected: Police present"
  /\ chatMessages[4].kind = "agent"
  /\ chatMessages[5].text.lit = "New signal detected: Police present"
  /\ signals.condition = DEGRADED
  /\ signals.severityScore # Null

(* the three cue labels the specification gives each state *)
CueLabels(state) ==
  CASE state = MONITOR -> <<"Situation Check", "Vehicle Health", "Time Impact">>
    [] state = REMOTE -> <<"Intervention Feasibility", "Escalation Avoidance", "Safety Risk">>
    [] state = FIELD -> <<"Public Impact", "Authority Involvement", "Remote Failure">>
    [] state = SERVICE -> <<"Repair Need", "Redeploy Risk", "Fleet Status">>

(* C26: in every reachable Signal Store state the Recommendation's cues    *)
(* are exactly three label/answer pairs, labelled with the three labels of *)
(* the recommended state; for FieldRecovery the public-impact answer is    *)
(* Yes iff condition is not Degraded and timeBlockedMin >= 5 (else Managed *)
(* with police, Limited without), the authority answer is Yes iff          *)
(* policePresent (else No), and the remote-failure answer is Yes iff       *)
(* currentIntervention is RemoteAssist and attemptCount >= 1.              *)
C26_CuesMatchRecommendedState ==
  LET rec == evaluate(signals) IN
  /\ rec.state \in Tiers
  /\ Len(rec.cues) = 3
  /\ \A i \in 1..3 : /\ Len(rec.cues[i]) = 2
                     /\ rec.cues[i][1] = CueLabels(rec.state)[i]
  /\ rec.state = FIELD
       => /\ rec.cues[1][2] = "Yes"
               <=> (signals.condition # DEGRADED /\ signals.timeBlockedMin >= 5)
          /\ rec.cues[1][2] \in {"Yes", "Managed", "Limited"}
          /\ rec.cues[1][2] = "Managed" => signals.policePresent
          /\ rec.cues[1][2] = "Limited" => ~signals.policePresent
          /\ rec.cues[2][2] = (IF signals.policePresent THEN "Yes" ELSE "No")
          /\ rec.cues[3][2] = "Yes"
               <=> (signals.currentIntervention = REMOTE /\ signals.attemptCount >= 1)

(* FieldRecovery is recommended after one RemoteAssist attempt on a long   *)
(* blockage without police: public impact Yes, authority No, remote        *)
(* failure Yes                                                             *)
C26_Witness ==
  /\ evaluate(signals).state = FIELD
  /\ evaluate(signals).cues =
       << <<"Public Impact", "Yes">>, <<"Authority Involvement", "No">>,
          <<"Remote Failure", "Yes">> >>

Flags == {"policePresent", "remoteAssistFailed", "lanePartiallyBlocked"}

(* some boolean signal goes from true to not true in the step *)
Lowered(b) == signals[b] = TRUE /\ signals'[b] # TRUE

(* C28: the chat pipeline only raises the boolean signals: a step made of  *)
(* addChatMessage calls (an injected human message, the operator's         *)
(* question, the agent's canned reply, each with the system notifications  *)
(* it causes) leaves each of policePresent, remoteAssistFailed and         *)
(* lanePartiallyBlocked true if it was true; a step that lowers one of     *)
(* them is a Scenario load, and then the signal is policePresent, or an    *)
(* arriving Q&A response.                                                  *)
C28_ChatOnlyRaisesFlags ==
  [][/\ ChatStep => \A b \in Flags : ~Lowered(b)
     /\ \A b \in Flags :
          /\ Lowered(b) => (Scenario \/ QAResolve)
          /\ (Lowered(b) /\ Scenario) => b = "policePresent"]_vars

(* police were raised by the operator's question and a later tow message,  *)
(* which names no flag, was processed and notified over them               *)
C28_Witness ==
  /\ signals.policePresent
  /\ Len(chatMessages) = 5
  /\ chatMessages[2].text.lit = "Have police arrived?"
  /\ chatMessages[3].text.lit = "New signal detected: Police present"
  /\ chatMessages[4].text.tow = "12"
  /\ chatMessages[5].kind = "system"
  /\ signals.towEtaMin = 12

(* the positions of the transcript's messages that mention a tow ETA *)
TowMessages == {i \in 1..Len(chatMessages) : chatMessages[i].text.tow # ""}

(* the summary entry for the captured digits d *)
TowEntry(d) == "Tow ETA ~" \o d \o " minutes"

(* the tow entries of a summary, as the digits they carry *)
TowEntries(summary) == {d \in DigitStrings : TowEntry(d) \in Range(summary)}

(* the digits of the earliest and of the most recent tow-ETA message *)
FirstTow(msgs) ==
  LET tows == {i \in 1..Len(msgs) : msgs[i].text.tow # ""}
  IN msgs[CHOOSE i \in tows : \A j \in tows : i <= j].text.tow

LastTow(msgs) ==
  LET tows == {i \in 1..Len(msgs) : msgs[i].text.tow # ""}
  IN msgs[CHOOSE i \in tows : \A j \in tows : j <= i].text.tow

(* C29, as claimed: the Live Summary holds at most one "Tow ETA ~n         *)
(* minutes" entry; with no tow-ETA message in the transcript it holds none *)
(* and towEtaMin is unset; otherwise the entry carries the digits of the   *)
(* earliest tow-ETA message of the transcript, while towEtaMin is the      *)
(* number of the most recent one.                                          *)
C29_TowSummaryFirstStoreLast ==
  /\ Cardinality(TowEntries(liveSummary)) <= 1
  /\ TowMessages = {} => (TowEntries(liveSummary) = {} /\ signals.towEtaMin = Null)
  /\ TowMessages # {} =>
       /\ TowEntries(liveSummary) = {FirstTow(chatMessages)}
       /\ signals.towEtaMin = parseInt(LastTow(chatMessages))

(* C29, amended: the Live Summary holds at most one "Tow ETA ~n minutes"   *)
(* entry, none without a tow-ETA message and otherwise the digits of the   *)
(* earliest one in the transcript; a step that appends a tow-ETA message   *)
(* leaves towEtaMin at the number of the most recent one; and a step that  *)
(* appends none changes towEtaMin only if it is a Q&A response whose       *)
(* new_signals name towEtaMin.                                             *)
C29_TowSummaryFirstStoreLastWrite ==
  [][LET tows == {i \in 1..Len(chatMessages') : chatMessages'[i].text.tow # ""} IN
     /\ Cardinality(TowEntries(liveSummary')) <= 1
     /\ tows = {} => TowEntries(liveSummary') = {}
     /\ tows # {} => TowEntries(liveSummary') = {FirstTow(chatMessages')}
     /\ tows # TowMessages
          => signals'.towEtaMin = parseInt(LastTow(chatMessages'))
     /\ (tows = TowMessages /\ signals'.towEtaMin # signals.towEtaMin)
          => QAResolveTowEta]_vars

(* "Tow ETA 12 minutes" and then "tow eta 08" were processed: the summary  *)
(* shows 12 and the Signal Store 8                                         *)
C29_Witness ==
  /\ \E i, j \in TowMessages :
       /\ i < j
       /\ chatMessages[i].text.tow = "12"
       /\ chatMessages[j].text.tow = "08"
  /\ TowEntry("12") \in Range(liveSummary)
  /\ signals.towEtaMin = 8

====
